---- MODULE Spec2Model ----
(***************************************************************************)
(* Staff canteen meal-entitlement tracker (streamlit_app.py).              *)
(*                                                                         *)
(* The state is the four SQLite tables, the st.cache_data caches of the    *)
(* four cached readers, the calendar day, the session flag db_initialized, *)
(* the outcome of the last handler and, for the scan requests of two       *)
(* terminals that run at the same time, what each has read so far;         *)
(* cache_cleared tells whether that last handler called clear_all_caches.  *)
(* Every                                                                   *)
(* handler of the application is one action; a scan request that runs     *)
(* beside another is two steps, its reads and its record_transaction.      *)
(*                                                                         *)
(* Representation of the tables:                                           *)
(*   staf, departemen, transaksi  sequences of rows in ascending id order  *)
(*                     (the order an unordered SELECT scans them in);      *)
(*                     INSERT appends, DELETE removes, INSERT OR REPLACE   *)
(*                     removes the conflicting row and appends the new one *)
(*                     (AUTOINCREMENT issues a fresh, larger id).          *)
(*                     transaksi rows are never deleted, so a row's id is  *)
(*                     its position.                                       *)
(*   menu_harian       tanggal -> <<>> or <<menu_data>> (tanggal UNIQUE).  *)
(* A Python None is <<>>, a present value v is <<v>>.  A date string       *)
(* "%Y-%m-%d" is the day number it denotes (string order = day order).     *)
(* The column waktu (time of day) orders the rows of one day the way their *)
(* ids do; it is not read by any handler and is left out of the rows.  No  *)
(* statement selects staf.id, departemen.id or menu_harian.id, and the     *)
(* rows carry none; t.id of the report is the row's position in transaksi. *)
(***************************************************************************)
EXTENDS Integers, Sequences, FiniteSets, TLC

VARIABLES departemen, menu_harian, staf, transaksi, cache, tanggal,
          db_initialized, result, pending, cache_cleared

store == <<departemen, menu_harian, staf, transaksi>>
vars == <<departemen, menu_harian, staf, transaksi, cache, tanggal,
          db_initialized, result, pending, cache_cleared>>

---------------------------------------------------------------------------
(* Bounds of the model *)
MaxTx == 2
MaxDay == 2
MaxCsvLen == 2
MaxCached == 1

(* Program constants *)
ADMIN_BARCODE_ID == "9999"
ADMIN_DEPARTEMEN_NAME == "ADMIN"
ADMIN_JATAH == 999

(* Input domains *)
Requests == {"A", "B"}
Days == 1..MaxDay
Barcodes == {"9999", "1001"}
ScanInputs == Barcodes \cup {"0000"}
DeptNames == {"Produksi"}
JatahValues == {1, 2}
MenuInputs == {[menu |-> "Nasi Goreng", harga |-> 15000],
               [menu |-> "Soto Ayam", harga |-> 12000]}

NONE == <<>>
Some(x) == <<x>>
Range(s) == {s[i] : i \in DOMAIN s}

---------------------------------------------------------------------------
(* json.dumps / json.loads of the menu dict {"menu": ..., "harga": ...} *)
JsonDumps(menu_dict) == <<"menu", menu_dict.menu, "harga", menu_dict.harga>>
JsonLoads(menu_data) == [menu |-> menu_data[2], harga |-> menu_data[4]]

---------------------------------------------------------------------------
(* The st.cache_data caches: one per decorated function, keyed by the      *)
(* arguments of the call.  A keyed cache is a set of <<key, value>> pairs  *)
(* with distinct keys; the cache of a call without arguments is <<>> (no   *)
(* entry) or <<value>>.                                                    *)
EmptyCache == [get_transactions_by_date |-> {},
               get_staf_data |-> {},
               get_staf_data_all |-> <<>>,
               get_departemen_data |-> <<>>,
               get_menu_today |-> <<>>]

(* A write that leaves the caches as they are *)
clear_all_caches_Lupa(c) == c

(* st.cache_data.clear() *)
clear_all_caches(c) == EmptyCache

CacheEntries(c) ==
    Cardinality(c.get_transactions_by_date) + Cardinality(c.get_staf_data)
    + Len(c.get_staf_data_all) + Len(c.get_departemen_data) + Len(c.get_menu_today)

HasKey(entries, k) == \E e \in entries : e[1] = k
Lookup(entries, k) == (CHOOSE e \in entries : e[1] = k)[2]

---------------------------------------------------------------------------
(* The SQL statements *)

(* SELECT ... FROM staf WHERE barcode_id = ? ; fetchone() *)
SelectStaf(s, barcode_id) ==
    IF \E i \in DOMAIN s : s[i].barcode_id = barcode_id
    THEN Some(s[CHOOSE i \in DOMAIN s : s[i].barcode_id = barcode_id])
    ELSE NONE

(* DELETE FROM staf WHERE barcode_id = ? *)
DeleteStafRow(s, barcode_id) == SelectSeq(s, LAMBDA r : r.barcode_id # barcode_id)

(* INSERT OR IGNORE in the place of INSERT OR REPLACE: the old row stays *)
InsertOrReplaceStaf_Ignore(s, row) ==
    IF \E i \in DOMAIN s : s[i].barcode_id = row.barcode_id THEN s ELSE Append(s, row)

(* INSERT OR REPLACE INTO staf: barcode_id is UNIQUE, the conflicting row   *)
(* is deleted and the new row gets a fresh id.                              *)
InsertOrReplaceStaf(s, row) == Append(DeleteStafRow(s, row.barcode_id), row)

(* INSERT OR IGNORE INTO departemen (nama_dept is UNIQUE) *)
InsertOrIgnoreDept(d, nama_dept) ==
    IF nama_dept \in Range(d) THEN d ELSE Append(d, nama_dept)

(* The decrement without its "jatah_tersisa > 0" condition *)
UpdateKurangiJatah_TanpaSyarat(s, barcode_id) ==
    [i \in DOMAIN s |->
        IF s[i].barcode_id = barcode_id
        THEN [s[i] EXCEPT !.jatah_tersisa = @ - 1]
        ELSE s[i]]

(* The decrement without its "barcode_id = ?" condition *)
UpdateKurangiJatah_SemuaBaris(s, barcode_id) ==
    [i \in DOMAIN s |->
        IF s[i].jatah_tersisa > 0
        THEN [s[i] EXCEPT !.jatah_tersisa = @ - 1]
        ELSE s[i]]

(* UPDATE staf SET jatah_tersisa = jatah_tersisa - 1                        *)
(*   WHERE barcode_id = ? AND jatah_tersisa > 0                             *)
UpdateKurangiJatah(s, barcode_id) ==
    [i \in DOMAIN s |->
        IF s[i].barcode_id = barcode_id /\ s[i].jatah_tersisa > 0
        THEN [s[i] EXCEPT !.jatah_tersisa = @ - 1]
        ELSE s[i]]

(* The reset to the column default 1 instead of jatah_harian *)
UpdateResetJatah_Default(s) ==
    [i \in DOMAIN s |-> [s[i] EXCEPT !.jatah_tersisa = 1]]

(* UPDATE staf SET jatah_tersisa = jatah_harian *)
UpdateResetJatah(s) ==
    [i \in DOMAIN s |-> [s[i] EXCEPT !.jatah_tersisa = s[i].jatah_harian]]

(* UPDATE staf SET nama, departemen, jatah_harian, jatah_tersisa WHERE barcode_id *)
UpdateStaf(s, barcode_id, nama, dept, jatah) ==
    [i \in DOMAIN s |->
        IF s[i].barcode_id = barcode_id
        THEN [s[i] EXCEPT !.nama = nama, !.departemen = dept,
                          !.jatah_harian = jatah, !.jatah_tersisa = jatah]
        ELSE s[i]]

(* ORDER BY nama_dept (binary collation) over the names of the model *)
DeptOrder == <<"ADMIN", "HRD", "Produksi">>

---------------------------------------------------------------------------
(* The four readers, uncached: what the query returns on the current store *)

(* get_transactions_by_date: transaksi JOIN staf ON barcode_id, tanggal     *)
(* BETWEEN from_date AND to_date, optional departemen and status filters.   *)
(* The rows come ORDER BY tanggal DESC, waktu DESC; the result is given as  *)
(* the set of its rows, each with its id and tanggal.                       *)
QueryTransactions(f) ==
    { [id |-> p[1], tanggal |-> transaksi[p[1]].tanggal,
       barcode_id |-> transaksi[p[1]].barcode_id,
       staff_nama |-> transaksi[p[1]].staff_nama,
       departemen |-> staf[p[2]].departemen,
       menu |-> transaksi[p[1]].menu, harga |-> transaksi[p[1]].harga,
       status_scan |-> transaksi[p[1]].status_scan] :
      p \in { q \in (DOMAIN transaksi) \X (DOMAIN staf) :
          /\ transaksi[q[1]].barcode_id = staf[q[2]].barcode_id
          /\ f.from_date <= transaksi[q[1]].tanggal
          /\ transaksi[q[1]].tanggal <= f.to_date
          /\ (f.departemen # "SEMUA DEPARTEMEN"
                => staf[q[2]].departemen = f.departemen)
          /\ (f.status_scan # "SEMUA STATUS"
                => transaksi[q[1]].status_scan = f.status_scan) } }

(* get_staf_data(barcode_id): the row as a dict, or None *)
QueryStaf(barcode_id) == SelectStaf(staf, barcode_id)

(* get_staf_data(): all rows, as a table in id order *)
QueryStafAll == staf

(* get_departemen_data: the names ORDER BY nama_dept *)
QueryDepartemen == SelectSeq(DeptOrder, LAMBDA n : n \in Range(departemen))

(* get_menu_today: SELECT menu_data FROM menu_harian WHERE tanggal = the   *)
(* day of the run; the dict or None                                        *)
QueryMenuToday ==
    IF menu_harian[tanggal] = NONE THEN NONE
    ELSE Some(JsonLoads(menu_harian[tanggal][1]))

---------------------------------------------------------------------------
(* The four readers behind st.cache_data: a call returns the cached value   *)
(* of its argument tuple when there is one, and otherwise runs the query    *)
(* and stores the result.  get_menu_today is always called without          *)
(* arguments, so all its calls share one entry.                             *)
get_transactions_by_date(c, f) ==
    IF HasKey(c.get_transactions_by_date, f)
    THEN Lookup(c.get_transactions_by_date, f) ELSE QueryTransactions(f)

get_staf_data(c, barcode_id) ==
    IF HasKey(c.get_staf_data, barcode_id)
    THEN Lookup(c.get_staf_data, barcode_id) ELSE QueryStaf(barcode_id)

get_staf_data_all(c) ==
    IF c.get_staf_data_all # <<>> THEN c.get_staf_data_all[1] ELSE QueryStafAll

get_departemen_data(c) ==
    IF c.get_departemen_data # <<>> THEN c.get_departemen_data[1]
    ELSE QueryDepartemen

get_menu_today(c) ==
    IF c.get_menu_today # <<>> THEN c.get_menu_today[1] ELSE QueryMenuToday

(* The cache after the call *)
Cached_transactions(c, f) ==
    [c EXCEPT !.get_transactions_by_date =
        @ \cup {<<f, get_transactions_by_date(c, f)>>}]
Cached_staf(c, barcode_id) ==
    [c EXCEPT !.get_staf_data = @ \cup {<<barcode_id, get_staf_data(c, barcode_id)>>}]
Cached_staf_all(c) == [c EXCEPT !.get_staf_data_all = <<get_staf_data_all(c)>>]
Cached_departemen(c) == [c EXCEPT !.get_departemen_data = <<get_departemen_data(c)>>]
Cached_menu(c) == [c EXCEPT !.get_menu_today = <<get_menu_today(c)>>]

---------------------------------------------------------------------------
(* The outcome of the last handler: its name, what it reported and, for    *)
(* the CSV import, the pair (success_count, fail_count) it returned.       *)
Result(op, ret) == [op |-> op, ret |-> ret, counts |-> <<0, 0>>]

Init ==
    /\ departemen = <<>>
    /\ menu_harian = [d \in Days |-> NONE]
    /\ staf = <<>>
    /\ transaksi = <<>>
    /\ cache = EmptyCache
    /\ tanggal = 1
    /\ db_initialized = FALSE
    /\ result = Result("start", "")
    /\ pending = [r \in Requests |-> NONE]
    /\ cache_cleared = FALSE

(* The calendar: a day ends. *)
NextDay ==
    /\ tanggal < MaxDay
    /\ tanggal' = tanggal + 1
    /\ UNCHANGED <<store, cache, db_initialized, result, pending, cache_cleared>>

(* main: the first run of a session calls setup_database, which seeds the  *)
(* admin staf row and the ADMIN departemen when they are absent and        *)
(* commits; it does not call clear_all_caches.                             *)
AdminRow == [barcode_id |-> ADMIN_BARCODE_ID, nama |-> "Administrator",
             departemen |-> ADMIN_DEPARTEMEN_NAME,
             jatah_harian |-> ADMIN_JATAH, jatah_tersisa |-> ADMIN_JATAH]

setup_database ==
    /\ ~db_initialized
    /\ staf' = IF SelectStaf(staf, ADMIN_BARCODE_ID) = NONE
               THEN Append(staf, AdminRow) ELSE staf
    /\ departemen' = IF ADMIN_DEPARTEMEN_NAME \notin Range(departemen)
                     THEN Append(departemen, ADMIN_DEPARTEMEN_NAME)
                     ELSE departemen
    /\ db_initialized' = TRUE
    /\ result' = Result("setup_database", "")
    /\ cache_cleared' = FALSE
    /\ UNCHANGED <<menu_harian, transaksi, cache, tanggal, pending>>

---------------------------------------------------------------------------
(* Page renders: each cached reader a page calls is one step, taken while   *)
(* fewer than MaxCached entries are held.                                   *)
ReportFilters ==
    { [from_date |-> 1, to_date |-> MaxDay,
       departemen |-> "SEMUA DEPARTEMEN", status_scan |-> "SEMUA STATUS"],
      [from_date |-> MaxDay, to_date |-> MaxDay,
       departemen |-> "Produksi", status_scan |-> "SUKSES"] }

(* admin_laporan_scan_harian: the departemen filter is one of the list shown *)
RenderTransactions(f) ==
    /\ db_initialized
    /\ CacheEntries(cache) < MaxCached
    /\ f.departemen \in {"SEMUA DEPARTEMEN"} \cup Range(get_departemen_data(cache))
    /\ cache' = Cached_transactions(cache, f)
    /\ UNCHANGED <<store, tanggal, pending, db_initialized, result, cache_cleared>>

RenderStafAll ==
    /\ db_initialized
    /\ CacheEntries(cache) < MaxCached
    /\ cache' = Cached_staf_all(cache)
    /\ UNCHANGED <<store, tanggal, pending, db_initialized, result, cache_cleared>>

RenderDepartemen ==
    /\ db_initialized
    /\ CacheEntries(cache) < MaxCached
    /\ cache' = Cached_departemen(cache)
    /\ UNCHANGED <<store, tanggal, pending, db_initialized, result, cache_cleared>>

RenderMenu ==
    /\ db_initialized
    /\ CacheEntries(cache) < MaxCached
    /\ cache' = Cached_menu(cache)
    /\ UNCHANGED <<store, tanggal, pending, db_initialized, result, cache_cleared>>

(* An entry reaches its time-to-live (ttl=...) and is dropped. *)
Expire ==
    /\ \/ \E e \in cache.get_transactions_by_date :
            cache' = [cache EXCEPT !.get_transactions_by_date = @ \ {e}]
       \/ \E e \in cache.get_staf_data :
            cache' = [cache EXCEPT !.get_staf_data = @ \ {e}]
       \/ /\ cache.get_staf_data_all # <<>>
          /\ cache' = [cache EXCEPT !.get_staf_data_all = <<>>]
       \/ /\ cache.get_departemen_data # <<>>
          /\ cache' = [cache EXCEPT !.get_departemen_data = <<>>]
       \/ /\ cache.get_menu_today # <<>>
          /\ cache' = [cache EXCEPT !.get_menu_today = <<>>]
    /\ UNCHANGED <<store, tanggal, pending, db_initialized, result, cache_cleared>>

---------------------------------------------------------------------------
(* An INSERT that replaces the earlier rows of the same barcode_id *)
InsertTransaksi_Replace(t, barcode_id, staff_nama, menu, harga, status) ==
    Append(SelectSeq(t, LAMBDA r : r.barcode_id # barcode_id),
           [barcode_id |-> barcode_id, tanggal |-> tanggal,
            menu |-> menu, harga |-> harga, staff_nama |-> staff_nama,
            status_scan |-> status])

(* record_transaction: one INSERT INTO transaksi, the guarded decrement    *)
(* when the status is SUKSES, commit, clear_all_caches.                    *)
InsertTransaksi(t, barcode_id, staff_nama, menu, harga, status) ==
    Append(t, [barcode_id |-> barcode_id, tanggal |-> tanggal,
               menu |-> menu, harga |-> harga, staff_nama |-> staff_nama,
               status_scan |-> status])

record_transaction_staf(s, barcode_id, status) ==
    IF status = "SUKSES" THEN UpdateKurangiJatah(s, barcode_id) ELSE s

(* The branches with "< 0" in the place of "<= 0" *)
ScanStatus_JatahNegatif(staf_row) ==
    IF staf_row = NONE THEN "GAGAL"
    ELSE IF staf_row[1].barcode_id = ADMIN_BARCODE_ID THEN "GAGAL"
    ELSE IF staf_row[1].jatah_tersisa < 0 THEN "GAGAL"
    ELSE "SUKSES"

(* The branches without the admin's *)
ScanStatus_TanpaAdmin(staf_row) ==
    IF staf_row = NONE THEN "GAGAL"
    ELSE IF staf_row[1].jatah_tersisa <= 0 THEN "GAGAL"
    ELSE "SUKSES"

(* scan_page: the branch the looked-up staf row selects *)
ScanStatus(staf_row) ==
    IF staf_row = NONE THEN "GAGAL"
    ELSE IF staf_row[1].barcode_id = ADMIN_BARCODE_ID THEN "GAGAL"
    ELSE IF staf_row[1].jatah_tersisa <= 0 THEN "GAGAL"
    ELSE "SUKSES"

(* The name left empty for an unknown barcode *)
ScanNama_Kosong(staf_row) == IF staf_row = NONE THEN "" ELSE staf_row[1].nama

(* scan_page: the staff_nama recorded: "N/A" when no row was found *)
ScanNama(staf_row) == IF staf_row = NONE THEN "N/A" ELSE staf_row[1].nama

(* scan_page returns before the form when get_menu_today() is None *)
ScanRefused(menu_today) == menu_today = NONE

(* scan_page with the form submitted and a non-empty barcode_input.  On    *)
(* SUKSES the row is read again after record_transaction cleared the cache. *)
scan_page(barcode_input) ==
    /\ db_initialized
    /\ LET menu_today == get_menu_today(cache)
           c1 == Cached_menu(cache)
       IN  IF ScanRefused(menu_today)
           THEN /\ cache' = c1
                /\ result' = Result("scan_page", "DITANGGUHKAN")
                /\ cache_cleared' = FALSE
                /\ UNCHANGED <<store, tanggal, pending, db_initialized>>
           ELSE LET staf_row == get_staf_data(c1, barcode_input)
                    c2 == Cached_staf(c1, barcode_input)
                    status == ScanStatus(staf_row)
                IN  /\ Len(transaksi) < MaxTx
                    /\ transaksi' = InsertTransaksi(transaksi, barcode_input,
                                        ScanNama(staf_row), menu_today[1].menu,
                                        menu_today[1].harga, status)
                    /\ staf' = record_transaction_staf(staf, barcode_input, status)
                    /\ cache' = IF status = "SUKSES"
                                THEN [clear_all_caches(c2) EXCEPT !.get_staf_data =
                                        @ \cup {<<barcode_input,
                                                  IF HasKey(clear_all_caches(c2).get_staf_data,
                                                            barcode_input)
                                                  THEN Lookup(clear_all_caches(c2).get_staf_data,
                                                              barcode_input)
                                                  ELSE SelectStaf(staf', barcode_input)>>}]
                                ELSE clear_all_caches(c2)
                    /\ result' = Result("scan_page", status)
                    /\ cache_cleared' = TRUE
                    /\ UNCHANGED <<departemen, menu_harian, tanggal, pending, db_initialized>>

---------------------------------------------------------------------------
(* Two terminals: the script of each session runs in its own thread, so    *)
(* the scan request of one terminal can run between the reads of another   *)
(* (get_menu_today, get_staf_data) and its record_transaction.             *)

(* scan_page up to the branch: the menu and the staf row are read *)
scan_lookup(r, barcode_input) ==
    /\ db_initialized
    /\ pending[r] = NONE
    /\ ~ScanRefused(get_menu_today(cache))
    /\ pending' = [pending EXCEPT ![r] =
            Some([barcode_input |-> barcode_input,
                  menu_today |-> get_menu_today(cache),
                  staf |-> get_staf_data(Cached_menu(cache), barcode_input)])]
    /\ cache' = Cached_staf(Cached_menu(cache), barcode_input)
    /\ UNCHANGED <<store, tanggal, db_initialized, result, cache_cleared>>

(* scan_page from the branch on: record_transaction with the row read      *)
(* before, and on SUKSES the row read again                                *)
scan_record(r) ==
    /\ pending[r] # NONE
    /\ Len(transaksi) < MaxTx
    /\ LET req == pending[r][1]
           status == ScanStatus(req.staf)
       IN  /\ transaksi' = InsertTransaksi(transaksi, req.barcode_input,
                               ScanNama(req.staf), req.menu_today[1].menu,
                               req.menu_today[1].harga, status)
           /\ staf' = record_transaction_staf(staf, req.barcode_input, status)
           /\ cache' = IF status = "SUKSES"
                       THEN [clear_all_caches(cache) EXCEPT !.get_staf_data =
                               @ \cup {<<req.barcode_input,
                                         IF HasKey(clear_all_caches(cache).get_staf_data,
                                                   req.barcode_input)
                                         THEN Lookup(clear_all_caches(cache).get_staf_data,
                                                     req.barcode_input)
                                         ELSE SelectStaf(staf', req.barcode_input)>>}]
                       ELSE clear_all_caches(cache)
           /\ result' = Result("scan_record", status)
           /\ cache_cleared' = TRUE
    /\ pending' = [pending EXCEPT ![r] = NONE]
    /\ UNCHANGED <<departemen, menu_harian, tanggal, db_initialized>>

---------------------------------------------------------------------------
(* reset_jatah_harian *)
reset_jatah_harian ==
    /\ db_initialized
    /\ staf' = UpdateResetJatah(staf)
    /\ cache' = clear_all_caches(cache)
    /\ cache_cleared' = TRUE
    /\ result' = Result("reset_jatah_harian", "True")
    /\ UNCHANGED <<departemen, menu_harian, transaksi, tanggal, pending, db_initialized>>

(* save_menu_today(TODAY_DATE, menu_dict), from the menu form *)
save_menu_today(menu_dict) ==
    /\ db_initialized
    /\ menu_harian' = [menu_harian EXCEPT ![tanggal] = Some(JsonDumps(menu_dict))]
    /\ cache' = clear_all_caches(cache)
    /\ cache_cleared' = TRUE
    /\ result' = Result("save_menu_today", "True")
    /\ UNCHANGED <<departemen, staf, transaksi, tanggal, pending, db_initialized>>

(* admin_manajemen_menu_departemen, "Tambah Departemen" submitted *)
tambah_departemen(new_dept_name) ==
    /\ db_initialized
    /\ IF new_dept_name = ""
       THEN /\ result' = Result("tambah_departemen", "kosong")
            /\ cache_cleared' = FALSE
            /\ UNCHANGED <<departemen, cache>>
       ELSE IF new_dept_name \in Range(departemen)
       THEN /\ result' = Result("tambah_departemen", "IntegrityError")
            /\ cache_cleared' = FALSE
            /\ UNCHANGED <<departemen, cache>>
       ELSE /\ departemen' = Append(departemen, new_dept_name)
            /\ cache' = clear_all_caches(cache)
            /\ cache_cleared' = TRUE
            /\ result' = Result("tambah_departemen", "True")
    /\ UNCHANGED <<menu_harian, staf, transaksi, tanggal, pending, db_initialized>>

(* "Tambah Staf" with INSERT OR REPLACE in the place of INSERT *)
tambah_staf_Replace(new_barcode_id, new_nama, new_dept, new_jatah) ==
    /\ db_initialized
    /\ new_dept \in Range(get_departemen_data(cache))
    /\ IF new_barcode_id = "" \/ new_nama = ""
       THEN /\ result' = Result("tambah_staf", "kosong")
            /\ cache_cleared' = FALSE
            /\ UNCHANGED <<staf, cache>>
       ELSE /\ staf' = InsertOrReplaceStaf(staf,
                           [barcode_id |-> new_barcode_id,
                            nama |-> new_nama, departemen |-> new_dept,
                            jatah_harian |-> new_jatah,
                            jatah_tersisa |-> new_jatah])
            /\ cache' = clear_all_caches(cache)
            /\ cache_cleared' = TRUE
            /\ result' = Result("tambah_staf", "True")
    /\ UNCHANGED <<departemen, menu_harian, transaksi, tanggal, pending, db_initialized>>

(* admin_manajemen_staf, "Tambah Staf" submitted; the departemen is picked *)
(* from the list the form shows.                                           *)
tambah_staf(new_barcode_id, new_nama, new_dept, new_jatah) ==
    /\ db_initialized
    /\ new_dept \in Range(get_departemen_data(cache))
    /\ IF new_barcode_id = "" \/ new_nama = ""
       THEN /\ result' = Result("tambah_staf", "kosong")
            /\ cache_cleared' = FALSE
            /\ UNCHANGED <<staf, cache>>
       ELSE IF SelectStaf(staf, new_barcode_id) # NONE
       THEN /\ result' = Result("tambah_staf", "IntegrityError")
            /\ cache_cleared' = FALSE
            /\ UNCHANGED <<staf, cache>>
       ELSE /\ staf' = Append(staf, [barcode_id |-> new_barcode_id,
                                     nama |-> new_nama, departemen |-> new_dept,
                                     jatah_harian |-> new_jatah,
                                     jatah_tersisa |-> new_jatah])
            /\ cache' = clear_all_caches(cache)
            /\ cache_cleared' = TRUE
            /\ result' = Result("tambah_staf", "True")
    /\ UNCHANGED <<departemen, menu_harian, transaksi, tanggal, pending, db_initialized>>

(* The staf the edit/delete selectbox offers: the listed rows but the admin's *)
StafOptions(c) ==
    {r.barcode_id : r \in Range(get_staf_data_all(c))} \ {ADMIN_BARCODE_ID}

(* admin_manajemen_staf, "Simpan Perubahan" submitted *)
edit_staf(barcode_to_edit, edit_nama, edit_dept, edit_jatah) ==
    /\ db_initialized
    /\ barcode_to_edit \in StafOptions(cache)
    /\ get_staf_data(cache, barcode_to_edit) # NONE
    /\ edit_dept \in Range(get_departemen_data(cache))
    /\ staf' = UpdateStaf(staf, barcode_to_edit, edit_nama, edit_dept, edit_jatah)
    /\ cache' = clear_all_caches(cache)
    /\ cache_cleared' = TRUE
    /\ result' = Result("edit_staf", "True")
    /\ UNCHANGED <<departemen, menu_harian, transaksi, tanggal, pending, db_initialized>>

(* admin_manajemen_staf, "Hapus Staf" pressed *)
hapus_staf(barcode_to_edit) ==
    /\ db_initialized
    /\ barcode_to_edit \in StafOptions(cache)
    /\ get_staf_data(cache, barcode_to_edit) # NONE
    /\ staf' = DeleteStafRow(staf, barcode_to_edit)
    /\ cache' = clear_all_caches(cache)
    /\ cache_cleared' = TRUE
    /\ result' = Result("hapus_staf", "True")
    /\ UNCHANGED <<departemen, menu_harian, transaksi, tanggal, pending, db_initialized>>

---------------------------------------------------------------------------
(* import_staf_from_csv *)
required_cols == {"barcode_id", "nama", "departemen", "jatah_harian"}

(* A jatah_harian cell is a number or a text that int() rejects. *)
IntCell(n) == [kind |-> "int", value |-> n]
TextCell == [kind |-> "str", value |-> 0]

(* int(cell): the number, or None for a ValueError *)
PyInt(cell) == IF cell.kind = "int" THEN Some(cell.value) ELSE NONE

(* str(cell).strip() over the cells of the model *)
Strip(cell) ==
    CASE cell = " 1001 " -> "1001"
      [] cell = "  " -> ""
      [] OTHER -> cell

CsvRow(b, n, d, j) ==
    [barcode_id |-> b, nama |-> n, departemen |-> d, jatah_harian |-> j]

CsvRowInputs ==
    { CsvRow("1001", "Budi", "Produksi", IntCell(1)),
      CsvRow(" 1001 ", "Siti", "HRD", IntCell(2)),
      CsvRow("9999", "Budi", "HRD", IntCell(1)),
      CsvRow("1001", "  ", "HRD", IntCell(1)),
      CsvRow("1001", "Budi", "HRD", IntCell(0)),
      CsvRow("1001", "Budi", "HRD", TextCell) }

CsvColumnInputs == {required_cols, required_cols \ {"jatah_harian"},
                    required_cols \ {"barcode_id"}}

(* The tables read from an uploaded file: up to MaxCsvLen rows under a     *)
(* header that may lack required columns.                                  *)
CsvTables ==
    { [columns |-> t[1], rows |-> [i \in DOMAIN t[2] |-> [c \in t[1] |-> t[2][i][c]]]] :
        t \in CsvColumnInputs \X UNION {[1..n -> CsvRowInputs] : n \in 0..MaxCsvLen} }

(* One pass of the loop over df_import.iterrows(): acc holds the tables as *)
(* the statements executed so far leave them, and the two counters.  A row *)
(* without one of the columns the pass reads raises KeyError, which ends   *)
(* the loop.                                                               *)
ImportRow(acc, row) ==
    IF acc.raised \/ \E col \in {"barcode_id", "nama", "departemen", "jatah_harian"} :
                        col \notin DOMAIN row
    THEN [acc EXCEPT !.raised = TRUE]
    ELSE
    LET barcode == Strip(row["barcode_id"])
        nama == Strip(row["nama"])
        dept == Strip(row["departemen"])
        jatah == PyInt(row["jatah_harian"])
    IN  IF jatah = NONE
        THEN [acc EXCEPT !.fail_count = @ + 1]
        ELSE IF barcode = "" \/ nama = "" \/ dept = "" \/ jatah[1] <= 0
        THEN [acc EXCEPT !.fail_count = @ + 1]
        ELSE [staf |-> InsertOrReplaceStaf(acc.staf,
                          [barcode_id |-> barcode, nama |-> nama,
                           departemen |-> dept, jatah_harian |-> jatah[1],
                           jatah_tersisa |-> jatah[1]]),
              departemen |-> InsertOrIgnoreDept(acc.departemen, dept),
              success_count |-> acc.success_count + 1,
              fail_count |-> acc.fail_count,
              raised |-> FALSE]

RECURSIVE ImportRows(_, _)
ImportRows(acc, rows) ==
    IF rows = <<>> THEN acc
    ELSE ImportRows(ImportRow(acc, Head(rows)), Tail(rows))

(* The loop run over the rows from the tables s, d *)
ImportLoop(s, d, rows) ==
    ImportRows([staf |-> s, departemen |-> d, success_count |-> 0,
                fail_count |-> 0, raised |-> FALSE], rows)

(* "all" read as "any" *)
HasRequiredCols_Any(df_import) == required_cols \cap df_import.columns # {}

HasRequiredCols(df_import) == required_cols \subseteq df_import.columns

(* import_staf_from_csv: (0, 0) and nothing else when a required column is *)
(* missing; otherwise the loop, commit, clear_all_caches and the counts.   *)
(* An exception out of the loop leaves the function before the commit.     *)
import_staf_from_csv(df_import) ==
    /\ db_initialized
    /\ IF ~HasRequiredCols(df_import)
       THEN /\ result' = [op |-> "import_staf_from_csv", ret |-> "kolom",
                          counts |-> <<0, 0>>]
            /\ cache_cleared' = FALSE
            /\ UNCHANGED <<staf, departemen, cache>>
       ELSE LET done == ImportLoop(staf, departemen, df_import.rows)
            IN  IF done.raised
                THEN /\ result' = [op |-> "import_staf_from_csv",
                                   ret |-> "KeyError", counts |-> <<>>]
                     /\ cache_cleared' = FALSE
                     /\ UNCHANGED <<staf, departemen, cache>>
                ELSE /\ staf' = done.staf
                     /\ departemen' = done.departemen
                     /\ cache' = clear_all_caches(cache)
                     /\ cache_cleared' = TRUE
                     /\ result' = [op |-> "import_staf_from_csv", ret |-> "selesai",
                                   counts |-> <<done.success_count, done.fail_count>>]
    /\ UNCHANGED <<menu_harian, transaksi, tanggal, pending, db_initialized>>

---------------------------------------------------------------------------
(* Spec: one calendar day, every handler of the application, one menu. *)
MenuInputsDay == {[menu |-> "Nasi Goreng", harga |-> 15000]}

CsvTablesDay ==
    { [columns |-> required_cols, rows |-> rs] :
        rs \in { <<CsvRow("1001", "Budi", "Produksi", IntCell(2))>>,
                 <<CsvRow("9999", "Budi", "Produksi", IntCell(1)),
                   CsvRow("1001", "Budi", "Produksi", TextCell)>> } }

Next ==
    \/ setup_database
    \/ \E f \in ReportFilters : RenderTransactions(f)
    \/ RenderStafAll
    \/ RenderDepartemen
    \/ RenderMenu
    \/ Expire
    \/ \E b \in ScanInputs : scan_page(b)
    \/ reset_jatah_harian
    \/ \E m \in MenuInputsDay : save_menu_today(m)
    \/ \E d \in DeptNames \cup {""} : tambah_departemen(d)
    \/ \E b \in Barcodes, d \in DeptNames \cup {ADMIN_DEPARTEMEN_NAME},
          j \in JatahValues : tambah_staf(b, "Budi", d, j)
    \/ \E d \in DeptNames \cup {ADMIN_DEPARTEMEN_NAME}, j \in JatahValues :
          edit_staf("1001", "Siti", d, j)
    \/ \E b \in Barcodes : hapus_staf(b)
    \/ \E df \in CsvTablesDay : import_staf_from_csv(df)

Spec == Init /\ [][Next]_vars

(* SpecKantin: the canteen over several days: the menu of each day, one     *)
(* staf, the scans.                                                         *)
NextKantin ==
    \/ setup_database
    \/ NextDay
    \/ RenderMenu
    \/ Expire
    \/ \E m \in MenuInputs : save_menu_today(m)
    \/ \E j \in JatahValues : tambah_staf("1001", "Budi", ADMIN_DEPARTEMEN_NAME, j)
    \/ \E df \in CsvTablesDay : import_staf_from_csv(df)
    \/ reset_jatah_harian
    \/ \E b \in ScanInputs : scan_page(b)

SpecKantin == Init /\ [][NextKantin]_vars

(* SpecImpor: uploads of every table of CsvTables into the staf one day     *)
(* can hold.                                                                *)
NextImpor ==
    \/ setup_database
    \/ \E m \in MenuInputsDay : save_menu_today(m)
    \/ \E j \in JatahValues : tambah_staf("1001", "Budi", ADMIN_DEPARTEMEN_NAME, j)
    \/ scan_page("1001")
    \/ \E df \in CsvTables : import_staf_from_csv(df)

SpecImpor == Init /\ [][NextImpor]_vars

(* SpecBalapan: the scan requests of two terminals beside each other and   *)
(* the writers of jatah_tersisa.                                           *)
NextBalapan ==
    \/ setup_database
    \/ \E m \in MenuInputsDay : save_menu_today(m)
    \/ \E j \in JatahValues : tambah_staf("1001", "Budi", ADMIN_DEPARTEMEN_NAME, j)
    \/ \E j \in JatahValues : edit_staf("1001", "Siti", ADMIN_DEPARTEMEN_NAME, j)
    \/ \E df \in CsvTablesDay : import_staf_from_csv(df)
    \/ reset_jatah_harian
    \/ \E r \in Requests : scan_lookup(r, "1001")
    \/ \E r \in Requests : scan_record(r)

SpecBalapan == Init /\ [][NextBalapan]_vars

---------------------------------------------------------------------------
(* Properties *)

Last(t) == t[Len(t)]
TodayMenu == JsonLoads(menu_harian[tanggal][1])

(* The step appends exactly one transaksi row, for barcode b, of today,    *)
(* with today's menu and price and the given status.                       *)
OneRowAdded(b, status) ==
    /\ Len(transaksi') = Len(transaksi) + 1
    /\ SubSeq(transaksi', 1, Len(transaksi)) = transaksi
    /\ Last(transaksi').barcode_id = b
    /\ Last(transaksi').tanggal = tanggal
    /\ Last(transaksi').status_scan = status
    /\ Last(transaksi').menu = TodayMenu.menu
    /\ Last(transaksi').harga = TodayMenu.harga

(* C1: with a menu saved for today, a scan of a registered non-admin       *)
(* barcode whose jatah_tersisa is above 0 appends exactly one SUKSES row   *)
(* with today's menu and price and the staf's name, lowers that staf's     *)
(* jatah_tersisa by exactly 1 and changes no other staf row.               *)
C1_ScanSukses ==
    [][\A b \in ScanInputs :
        ( /\ scan_page(b)
          /\ menu_harian[tanggal] # NONE
          /\ b # ADMIN_BARCODE_ID
          /\ SelectStaf(staf, b) # NONE
          /\ SelectStaf(staf, b)[1].jatah_tersisa > 0 )
        => /\ OneRowAdded(b, "SUKSES")
           /\ Last(transaksi').staff_nama = SelectStaf(staf, b)[1].nama
           /\ DOMAIN staf' = DOMAIN staf
           /\ \A i \in DOMAIN staf :
                staf'[i] = IF staf[i].barcode_id = b
                           THEN [staf[i] EXCEPT !.jatah_tersisa = @ - 1]
                           ELSE staf[i]]_vars

C1_Witness ==
    /\ result = Result("scan_page", "SUKSES")
    /\ tanggal = MaxDay
    /\ menu_harian[1] # NONE /\ menu_harian[1] # menu_harian[tanggal]
    /\ Last(transaksi).status_scan = "SUKSES"
    /\ Last(transaksi).tanggal = tanggal
    /\ Last(transaksi).menu = TodayMenu.menu
    /\ \E i \in DOMAIN staf :
         /\ staf[i].barcode_id = Last(transaksi).barcode_id
         /\ staf[i].jatah_tersisa = staf[i].jatah_harian - 1
    /\ SelectStaf(staf, ADMIN_BARCODE_ID) = Some(AdminRow)

(* C2: with a menu saved for today, a scan of a registered non-admin       *)
(* barcode whose jatah_tersisa is 0 appends exactly one GAGAL row and      *)
(* leaves the staf table as it is.                                         *)
C2_ScanJatahHabis ==
    [][\A b \in ScanInputs :
        ( /\ scan_page(b)
          /\ menu_harian[tanggal] # NONE
          /\ b # ADMIN_BARCODE_ID
          /\ SelectStaf(staf, b) # NONE
          /\ SelectStaf(staf, b)[1].jatah_tersisa = 0 )
        => /\ OneRowAdded(b, "GAGAL")
           /\ staf' = staf]_vars

C2_Witness ==
    /\ result = Result("scan_page", "GAGAL")
    /\ Last(transaksi).status_scan = "GAGAL"
    /\ Last(transaksi).barcode_id = "1001"
    /\ Last(transaksi).staff_nama = "Budi"
    /\ SelectStaf(staf, "1001") # NONE
    /\ SelectStaf(staf, "1001")[1].jatah_tersisa = 0

(* C3: with a menu saved for today, a scan of a barcode that is not in     *)
(* staf appends exactly one GAGAL row whose staff_nama is "N/A", with      *)
(* today's menu and price, and leaves the staf table as it is.             *)
C3_ScanTidakTerdaftar ==
    [][\A b \in ScanInputs :
        ( /\ scan_page(b)
          /\ menu_harian[tanggal] # NONE
          /\ SelectStaf(staf, b) = NONE )
        => /\ OneRowAdded(b, "GAGAL")
           /\ Last(transaksi').staff_nama = "N/A"
           /\ staf' = staf]_vars

C3_Witness ==
    /\ result = Result("scan_page", "GAGAL")
    /\ Last(transaksi).barcode_id = "0000"
    /\ Last(transaksi).staff_nama = "N/A"
    /\ Last(transaksi).status_scan = "GAGAL"
    /\ Last(transaksi).menu = TodayMenu.menu
    /\ SelectStaf(staf, "0000") = NONE

(* C4: a scan of the admin barcode "9999" that the page processes appends  *)
(* exactly one GAGAL row and leaves the staf table, the admin's            *)
(* jatah_tersisa included, as it is, whatever that jatah_tersisa is; no    *)
(* row of transaksi for "9999" is ever SUKSES.                             *)
C4_ScanAdmin ==
    [][ /\ ( scan_page(ADMIN_BARCODE_ID) /\ ~ScanRefused(get_menu_today(cache)) )
           => /\ Len(transaksi') = Len(transaksi) + 1
              /\ SubSeq(transaksi', 1, Len(transaksi)) = transaksi
              /\ Last(transaksi').barcode_id = ADMIN_BARCODE_ID
              /\ Last(transaksi').status_scan = "GAGAL"
              /\ staf' = staf
        /\ \A i \in DOMAIN transaksi' :
              transaksi'[i].barcode_id = ADMIN_BARCODE_ID
                 => transaksi'[i].status_scan = "GAGAL" ]_vars

C4_Witness ==
    /\ result = Result("scan_page", "GAGAL")
    /\ Len(transaksi) = 2
    /\ transaksi[1].barcode_id = ADMIN_BARCODE_ID
    /\ transaksi[1].staff_nama = "Administrator"
    /\ transaksi[2].barcode_id = ADMIN_BARCODE_ID
    /\ transaksi[2].staff_nama = "Budi"
    /\ SelectStaf(staf, ADMIN_BARCODE_ID)[1].jatah_tersisa = 1

(* C5: with no menu saved for today, a scan changes neither transaksi nor  *)
(* staf, for every barcode entered.                                        *)
C5_TanpaMenu ==
    [][\A b \in ScanInputs :
        ( scan_page(b) /\ menu_harian[tanggal] = NONE )
        => ( transaksi' = transaksi /\ staf' = staf )]_vars

(* C6: after every step that changes a table, each of the four cached      *)
(* readers returns, for every argument, what its query returns on the      *)
(* tables as they now are.                                                 *)
FreshReads ==
    /\ \A f \in ReportFilters : get_transactions_by_date(cache, f) = QueryTransactions(f)
    /\ \A b \in ScanInputs : get_staf_data(cache, b) = QueryStaf(b)
    /\ get_staf_data_all(cache) = QueryStafAll
    /\ get_departemen_data(cache) = QueryDepartemen
    /\ get_menu_today(cache) = QueryMenuToday

C6_CacheFresh == [][store' # store => FreshReads']_vars

C6_Witness ==
    /\ result = Result("scan_page", "SUKSES")
    /\ \E e \in cache.get_staf_data :
         /\ e[1] = Last(transaksi).barcode_id
         /\ e[2] = SelectStaf(staf, e[1])
         /\ e[2][1].jatah_tersisa = e[2][1].jatah_harian - 1

(* C7: reset_jatah_harian sets jatah_tersisa to jatah_harian in every      *)
(* non-admin staf row, changes no other field of any staf row, leaves the  *)
(* admin's row as it is and changes no departemen, menu_harian or          *)
(* transaksi row.                                                          *)
C7_Reset ==
    [][reset_jatah_harian
        => /\ DOMAIN staf' = DOMAIN staf
           /\ \A i \in DOMAIN staf :
                staf'[i] = IF staf[i].barcode_id = ADMIN_BARCODE_ID
                           THEN staf[i]
                           ELSE [staf[i] EXCEPT !.jatah_tersisa = staf[i].jatah_harian]
           /\ UNCHANGED <<departemen, menu_harian, transaksi>>]_vars

C7_Witness ==
    /\ result = Result("reset_jatah_harian", "True")
    /\ \E i \in DOMAIN transaksi :
         /\ transaksi[i].barcode_id = "1001"
         /\ transaksi[i].status_scan = "SUKSES"
    /\ SelectStaf(staf, "1001") # NONE
    /\ SelectStaf(staf, "1001")[1].jatah_harian = 2
    /\ SelectStaf(staf, "1001")[1].jatah_tersisa = 2
    /\ SelectStaf(staf, ADMIN_BARCODE_ID) # NONE

(* C8: the CSV import is idempotent on barcode_id.  From every reachable   *)
(* state and for all valid rows r1, r2 of one barcode_id, importing r1     *)
(* and r2 leaves exactly one staf row of that barcode_id, holding r2's     *)
(* values with jatah_tersisa = jatah_harian; importing a row twice, in     *)
(* one upload or in two successive uploads, leaves the tables as           *)
(* importing it once does.                                                 *)
ValidCsvRows ==
    { r \in CsvRowInputs :
        /\ PyInt(r.jatah_harian) # NONE
        /\ Strip(r.barcode_id) # "" /\ Strip(r.nama) # "" /\ Strip(r.departemen) # ""
        /\ PyInt(r.jatah_harian)[1] > 0 }

RowsOf(s, barcode_id) == {i \in DOMAIN s : s[i].barcode_id = barcode_id}

CsvTablesTanpaKolom ==
    { df \in CsvTables :
        \E col \in {"barcode_id", "nama", "departemen", "jatah_harian"} :
            col \notin df.columns }

(* C9: an upload whose header lacks one of barcode_id, nama, departemen,   *)
(* jatah_harian returns (0, 0) and changes no table.                       *)
C9_KolomWajib ==
    [][\A df \in CsvTablesTanpaKolom :
        import_staf_from_csv(df) => ( result'.counts = <<0, 0>> /\ store' = store )]_vars

C9_Witness ==
    /\ result = [op |-> "import_staf_from_csv", ret |-> "kolom", counts |-> <<0, 0>>]
    /\ Len(staf) = 2
    /\ Len(transaksi) > 0

(* C10: transaksi is append-only.  No step changes or removes a row that   *)
(* is there, a step adds at most one row, and only a scan adds one.        *)
C10_AppendOnly ==
    [][ /\ Len(transaksi') >= Len(transaksi)
        /\ SubSeq(transaksi', 1, Len(transaksi)) = transaksi
        /\ Len(transaksi') <= Len(transaksi) + 1
        /\ Len(transaksi') > Len(transaksi) => \E b \in ScanInputs : scan_page(b) ]_vars

C10_Witness ==
    /\ result = Result("hapus_staf", "True")
    /\ Len(transaksi) = MaxTx
    /\ transaksi[1].barcode_id = "1001" /\ transaksi[2].barcode_id = "1001"
    /\ SelectStaf(staf, "1001") = NONE

(* C11: in every reachable state every staf row has                        *)
(* 0 <= jatah_tersisa <= jatah_harian, also when the scan requests of two  *)
(* terminals for one barcode both read the staf row before either records  *)
(* its transaction.                                                        *)
C11_JatahDalamBatas ==
    \A i \in DOMAIN staf :
        0 <= staf[i].jatah_tersisa /\ staf[i].jatah_tersisa <= staf[i].jatah_harian

C11_Witness ==
    /\ result = Result("scan_record", "SUKSES")
    /\ \E r \in Requests :
         /\ pending[r] # NONE
         /\ pending[r][1].barcode_input = "1001"
         /\ pending[r][1].staf # NONE
         /\ pending[r][1].staf[1].jatah_tersisa = 1
    /\ Last(transaksi).barcode_id = "1001"
    /\ Last(transaksi).status_scan = "SUKSES"
    /\ SelectStaf(staf, "1001") # NONE
    /\ SelectStaf(staf, "1001")[1].jatah_tersisa = 0

(* C12: once the admin's staf row (barcode "9999") is seeded, no step      *)
(* (add, edit, delete, CSV import) changes its nama, departemen or         *)
(* jatah_harian or removes it.                                             *)
C12_AdminTetap ==
    [][SelectStaf(staf, ADMIN_BARCODE_ID) # NONE
        => /\ SelectStaf(staf', ADMIN_BARCODE_ID) # NONE
           /\ SelectStaf(staf', ADMIN_BARCODE_ID)[1].nama
                = SelectStaf(staf, ADMIN_BARCODE_ID)[1].nama
           /\ SelectStaf(staf', ADMIN_BARCODE_ID)[1].departemen
                = SelectStaf(staf, ADMIN_BARCODE_ID)[1].departemen
           /\ SelectStaf(staf', ADMIN_BARCODE_ID)[1].jatah_harian
                = SelectStaf(staf, ADMIN_BARCODE_ID)[1].jatah_harian]_vars

(* C13: "Tambah Staf" with a barcode_id that a staf row already has is     *)
(* rejected with the uniqueness error: the row keeps all its values,       *)
(* jatah_tersisa included, no row is added and no table changes.           *)
C13_TambahDuplikat ==
    [][\A b \in Barcodes, d \in DeptNames \cup {ADMIN_DEPARTEMEN_NAME}, j \in JatahValues :
        ( SelectStaf(staf, b) # NONE /\ tambah_staf(b, "Budi", d, j) )
        => ( result' = Result("tambah_staf", "IntegrityError") /\ store' = store )]_vars

C13_Witness ==
    /\ result = Result("tambah_staf", "IntegrityError")
    /\ Len(staf) = 2
    /\ SelectStaf(staf, "1001") # NONE
    /\ SelectStaf(staf, "1001")[1].nama = "Siti"
    /\ SelectStaf(staf, "1001")[1].jatah_harian = 2
    /\ SelectStaf(staf, "1001")[1].jatah_tersisa = 1
    /\ SelectStaf(staf, ADMIN_BARCODE_ID) = Some(AdminRow)

(* C14: every step that writes to the store (scan record, reset, menu      *)
(* save, CSV import, staf add/edit/delete, departemen add, the seeding of  *)
(* the admin staf row and the ADMIN departemen by setup_database) has      *)
(* called clear_all_caches before it ends, so that the caches hold nothing *)
(* but what the handler read after that call.                              *)
C14_TulisKosongkanCache ==
    [][store' # store
        => /\ cache_cleared'
           /\ cache'.get_transactions_by_date = {}
           /\ cache'.get_staf_data_all = <<>>
           /\ cache'.get_departemen_data = <<>>
           /\ cache'.get_menu_today = <<>>
           /\ \A e \in cache'.get_staf_data : e[2] = SelectStaf(staf', e[1])]_vars

(* C15: no over-redemption: every step that appends a SUKSES row for a     *)
(* barcode lowers the jatah_tersisa of that barcode's staf row by exactly  *)
(* 1, also when the scan requests of two terminals for one barcode both    *)
(* read the staf row before either calls record_transaction.               *)
C15_SuksesBerartiKurang ==
    [][( /\ Len(transaksi') = Len(transaksi) + 1
         /\ Last(transaksi').status_scan = "SUKSES" )
        => /\ SelectStaf(staf, Last(transaksi').barcode_id) # NONE
           /\ SelectStaf(staf', Last(transaksi').barcode_id) # NONE
           /\ SelectStaf(staf', Last(transaksi').barcode_id)[1].jatah_tersisa
                = SelectStaf(staf, Last(transaksi').barcode_id)[1].jatah_tersisa - 1]_vars

(* C16: the report query without departemen and status filter returns      *)
(* exactly the transaksi rows whose tanggal lies in [from_date, to_date],  *)
(* the GAGAL rows of unregistered barcodes and the rows of staf deleted    *)
(* after the scan included.                                                *)
C16_LaporanLengkap ==
    \A from_date \in Days, to_date \in Days :
        { r.id : r \in QueryTransactions(
                    [from_date |-> from_date, to_date |-> to_date,
                     departemen |-> "SEMUA DEPARTEMEN",
                     status_scan |-> "SEMUA STATUS"]) }
        = { i \in DOMAIN transaksi :
              from_date <= transaksi[i].tanggal /\ transaksi[i].tanggal <= to_date }

====
